---- MODULE Spec2Model ----
(***************************************************************************)
(* State-machine model of the audio capture and submission pipeline of     *)
(* meet-scribe-chat:                                                       *)
(*   - the useMediaRecorder hook (capture controller),                     *)
(*   - the RecordingSubmissionModal and its owner RecordingControls,       *)
(*   - the Upload page,                                                    *)
(*   - the processMeeting transport as seen by its callers.                *)
(* The browser (getUserMedia, MediaRecorder, timers, fetch) is the         *)
(* environment: its events are separate actions that may interleave with   *)
(* the handlers in any order.                                              *)
(***************************************************************************)
EXTENDS Integers, Sequences, FiniteSets, TLC

\* ------------------------------------------------------------------ bounds
MaxStarts == 2      \* startRecording calls pending or holding a stream in one behaviour
MaxChunks == 2      \* dataavailable events in one behaviour
MaxTime == 1        \* timer ticks counted in recordingTime
MaxStops == 1       \* stopRecording calls in one behaviour
MaxTimers == 2      \* resumeRecording sets no interval beyond this many active

\* ------------------------------------------------------- capture controller
VARIABLES
  isRecording,       \* useState(false)
  recordingTime,     \* useState(0)
  error,             \* useState<string | null>(null)
  mediaRecorderRef,  \* useRef<MediaRecorder | null>: 0 is null, else a recorder
  chunksRef,         \* useRef<Blob[]>: the current chunk array
  intervalRef,       \* useRef<Timeout | null>: 0 is null, else a timer id
  recorders,         \* the MediaRecorder objects created so far
  tracks,            \* per acquired stream: "live" or "ended"
  timers,            \* ids of the intervals that are set and not cleared
  pendingGrants,     \* startRecording calls suspended at getUserMedia
  promises,          \* the promises returned by stopRecording
  delivered,         \* per recorder: the chunks the platform handed over
  nChunks            \* dataavailable events so far

captureVars == <<isRecording, recordingTime, error, mediaRecorderRef, chunksRef,
                 intervalRef, recorders, tracks, timers,
                 pendingGrants, promises, delivered, nChunks>>

NoError == "null"
StartFailedMsg == "Failed to start recording. Please check microphone permissions."
AudioMime == "audio/webm"

\* Sizes the platform gives its chunks: non-uniform, and any dataavailable
\* event may also be empty (size 0).
ChunkSizes(n) == {0, <<1000, 2000, 1500>>[((n - 1) % 3) + 1]}

RECURSIVE SumSizes(_)
SumSizes(s) == IF s = <<>> THEN 0 ELSE Head(s).size + SumSizes(Tail(s))

RECURSIVE NonEmpty(_)
\* The bytes of a sequence of chunks: the chunks that carry data, in order.
NonEmpty(s) ==
  IF s = <<>> THEN <<>>
  ELSE IF Head(s).size > 0 THEN <<Head(s)>> \o NonEmpty(Tail(s))
       ELSE NonEmpty(Tail(s))

\* new Blob(parts, { type }): the parts in the given order.
NewBlob(parts, type) == [parts |-> parts, type |-> type]
BlobSize(b) == SumSizes(b.parts)

InitCapture ==
  /\ isRecording = FALSE
  /\ recordingTime = 0
  /\ error = NoError
  /\ mediaRecorderRef = 0
  /\ chunksRef = <<>>
  /\ intervalRef = 0
  /\ recorders = <<>>
  /\ tracks = <<>>
  /\ timers = {}
  /\ pendingGrants = 0
  /\ promises = <<>>
  /\ delivered = <<>>
  /\ nChunks = 0

\* setInterval(...): a timer id no active interval has.
SetInterval == CHOOSE t \in 1..(Cardinality(timers) + 1) : t \notin timers

\* startRecording up to its suspension at getUserMedia.
StartRecording ==
  /\ pendingGrants + Len(tracks) < MaxStarts
  /\ error' = NoError
  /\ pendingGrants' = pendingGrants + 1
  /\ UNCHANGED <<isRecording, recordingTime, mediaRecorderRef, chunksRef,
                 intervalRef, recorders, tracks, timers, promises,
                 delivered, nChunks>>

\* A start that forgets setRecordingTime(0).
GetUserMediaResolveKeepsTime ==
  /\ pendingGrants > 0
  /\ pendingGrants' = pendingGrants - 1
  /\ tracks' = Append(tracks, "live")
  /\ recorders' = Append(recorders,
        [state |-> "recording", stream |-> Len(tracks) + 1,
         onstop |-> 0, events |-> <<>>])
  /\ delivered' = Append(delivered, <<>>)
  /\ mediaRecorderRef' = Len(recorders) + 1
  /\ chunksRef' = <<>>
  /\ isRecording' = TRUE
  /\ intervalRef' = SetInterval
  /\ timers' = timers \cup {SetInterval}
  /\ UNCHANGED <<recordingTime, error, promises, nChunks>>

\* getUserMedia resolves: the rest of startRecording's try block.
GetUserMediaResolve ==
  /\ pendingGrants > 0
  /\ pendingGrants' = pendingGrants - 1
  /\ tracks' = Append(tracks, "live")
  /\ recorders' = Append(recorders,
        [state |-> "recording", stream |-> Len(tracks) + 1,
         onstop |-> 0, events |-> <<>>])
  /\ delivered' = Append(delivered, <<>>)
  /\ mediaRecorderRef' = Len(recorders) + 1
  /\ chunksRef' = <<>>
  /\ isRecording' = TRUE
  /\ recordingTime' = 0
  /\ intervalRef' = SetInterval
  /\ timers' = timers \cup {SetInterval}
  /\ UNCHANGED <<error, promises, nChunks>>

\* A catch block that swallows the failure.
GetUserMediaRejectSilent ==
  /\ pendingGrants > 0
  /\ pendingGrants' = pendingGrants - 1
  /\ UNCHANGED <<isRecording, recordingTime, error, mediaRecorderRef,
                 chunksRef, intervalRef, recorders, tracks, timers,
                 promises, delivered, nChunks>>

\* getUserMedia rejects (access refused, no device): the catch block.
GetUserMediaReject ==
  /\ pendingGrants > 0
  /\ pendingGrants' = pendingGrants - 1
  /\ error' = StartFailedMsg
  /\ UNCHANGED <<isRecording, recordingTime, mediaRecorderRef, chunksRef,
                 intervalRef, recorders, tracks, timers,
                 promises, delivered, nChunks>>

\* getUserMedia resolves with a stream and new MediaRecorder(stream) throws
\* (NotSupportedError): the catch block runs, nothing stops the stream.
MediaRecorderThrows ==
  /\ pendingGrants > 0
  /\ pendingGrants' = pendingGrants - 1
  /\ tracks' = Append(tracks, "live")
  /\ error' = StartFailedMsg
  /\ UNCHANGED <<isRecording, recordingTime, mediaRecorderRef, chunksRef,
                 intervalRef, recorders, timers, promises, delivered,
                 nChunks>>

\* mediaRecorder.ondataavailable: keep the chunk if it carries data.
OnDataAvailable(chunks, data) ==
  IF data.size > 0 THEN Append(chunks, data) ELSE chunks

\* MediaRecorder.stop() and the end of all tracks, on the platform's side: the
\* recorder is inactive at once and a dataavailable event with the data
\* gathered so far, then a stop event, are queued.
PlatformStop(rec) ==
  [rec EXCEPT !.state = "inactive", !.events = <<"dataavailable", "stop">>]

\* The platform hands a chunk to recorder r while it is recording.
RecorderData(r) ==
  /\ recorders[r].state = "recording"
  /\ nChunks < MaxChunks
  /\ \E size \in ChunkSizes(nChunks + 1) :
       LET data == [id |-> nChunks + 1, size |-> size] IN
       /\ delivered' = [delivered EXCEPT ![r] = Append(@, data)]
       /\ chunksRef' = OnDataAvailable(chunksRef, data)
  /\ nChunks' = nChunks + 1
  /\ UNCHANGED <<isRecording, recordingTime, error, mediaRecorderRef,
                 intervalRef, recorders, tracks, timers,
                 pendingGrants, promises>>

\* The dataavailable event queued by the stop of recorder r.
RecorderFinalData(r) ==
  /\ recorders[r].events # <<>>
  /\ Head(recorders[r].events) = "dataavailable"
  /\ \E size \in ChunkSizes(nChunks + 1) :
       LET data == [id |-> nChunks + 1, size |-> size] IN
       /\ delivered' = [delivered EXCEPT ![r] = Append(@, data)]
       /\ chunksRef' = OnDataAvailable(chunksRef, data)
  /\ nChunks' = nChunks + 1
  /\ recorders' = [recorders EXCEPT ![r].events = Tail(@)]
  /\ UNCHANGED <<isRecording, recordingTime, error, mediaRecorderRef,
                 intervalRef, tracks, timers, pendingGrants,
                 promises>>

\* stream.getTracks().forEach(track => track.stop()) for stream s, and what the
\* platform does to the recorders still capturing from s.
StopTracks(recs, s) ==
  [q \in 1..Len(recs) |->
     IF recs[q].stream = s /\ recs[q].state # "inactive"
     THEN PlatformStop(recs[q]) ELSE recs[q]]

\* The stream whose tracks the onstop handler stops: that of the recorder
\* mediaRecorderRef.current names when the handler runs.
OnStopStream == recorders[mediaRecorderRef].stream

\* The stop event of recorder r; with a handler installed by stopRecording
\* (promise p) that handler runs.
RecorderStop(r) ==
  /\ recorders[r].events # <<>>
  /\ Head(recorders[r].events) = "stop"
  /\ LET p == recorders[r].onstop
         popped == [recorders EXCEPT ![r].events = Tail(@)] IN
     IF p = 0
     THEN /\ recorders' = popped
          /\ UNCHANGED <<tracks, promises>>
     ELSE \* resolve(blob) settles the promise unless it is settled already.
          /\ promises' = IF promises[p].status # "pending" THEN promises
               ELSE [promises EXCEPT ![p] =
                      [@ EXCEPT !.status = "blob",
                                !.blob = NewBlob(chunksRef, AudioMime),
                                !.seen = nChunks]]
          /\ tracks' = [tracks EXCEPT ![OnStopStream] = "ended"]
          /\ recorders' = StopTracks(popped, OnStopStream)
  /\ UNCHANGED <<isRecording, recordingTime, error, mediaRecorderRef, chunksRef,
                 intervalRef, timers, pendingGrants,
                 delivered, nChunks>>

NoBlob == NewBlob(<<>>, "")

\* The guard of stopRecording, pauseRecording and resumeRecording.
HasActiveRecorder == mediaRecorderRef # 0 /\ isRecording

\* A stopRecording that seals the blob when it is called instead of in the
\* recorder's stop event.
StopRecordingSealsAtCall ==
  /\ Len(promises) < MaxStops
  /\ IF ~HasActiveRecorder \/ recorders[mediaRecorderRef].state = "inactive"
     THEN /\ promises' = Append(promises,
               [status |-> "null", blob |-> NoBlob, recorder |-> 0, seen |-> 0])
          /\ UNCHANGED <<isRecording, intervalRef, timers, recorders>>
     ELSE /\ promises' = Append(promises,
               [status |-> "blob", blob |-> NewBlob(chunksRef, AudioMime),
                recorder |-> mediaRecorderRef, seen |-> nChunks])
          /\ recorders' = [recorders EXCEPT ![mediaRecorderRef] = PlatformStop(@)]
          /\ isRecording' = FALSE
          /\ timers' = timers \ {intervalRef}
          /\ intervalRef' = 0
  /\ UNCHANGED <<recordingTime, error, mediaRecorderRef, chunksRef, tracks,
                 pendingGrants, delivered, nChunks>>

\* stopRecording.  promises[p].recorder is the recorder the call stops and
\* promises[p].seen the number of dataavailable events that had happened when
\* the promise resolved.
StopRecording ==
  /\ Len(promises) < MaxStops
  /\ LET p == Len(promises) + 1 IN
     IF ~HasActiveRecorder
     THEN /\ promises' = Append(promises,
               [status |-> "null", blob |-> NoBlob, recorder |-> 0, seen |-> 0])
          /\ UNCHANGED <<isRecording, intervalRef, timers, recorders>>
     ELSE IF recorders[mediaRecorderRef].state = "inactive"
     THEN \* MediaRecorder.stop() throws InvalidStateError: the executor
          \* has installed onstop and the promise rejects.
          /\ promises' = Append(promises,
               [status |-> "rejected", blob |-> NoBlob,
                recorder |-> mediaRecorderRef, seen |-> 0])
          /\ recorders' = [recorders EXCEPT ![mediaRecorderRef].onstop = p]
          /\ UNCHANGED <<isRecording, intervalRef, timers>>
     ELSE /\ promises' = Append(promises,
               [status |-> "pending", blob |-> NoBlob,
                recorder |-> mediaRecorderRef, seen |-> 0])
          /\ recorders' = [recorders EXCEPT ![mediaRecorderRef] =
               PlatformStop([@ EXCEPT !.onstop = p])]
          /\ isRecording' = FALSE
          /\ timers' = timers \ {intervalRef}
          /\ intervalRef' = 0
  /\ UNCHANGED <<recordingTime, error, mediaRecorderRef, chunksRef, tracks, pendingGrants, delivered, nChunks>>

\* A pauseRecording that also lets go of the microphone.
PauseRecordingStopsTracks ==
  /\ IF HasActiveRecorder /\ recorders[mediaRecorderRef].state # "inactive"
     THEN /\ recorders' = [recorders EXCEPT ![mediaRecorderRef].state = "paused"]
          /\ timers' = timers \ {intervalRef}
          /\ intervalRef' = 0
          /\ tracks' = [tracks EXCEPT ![recorders[mediaRecorderRef].stream] = "ended"]
     ELSE UNCHANGED <<recorders, timers, intervalRef, tracks>>
  /\ UNCHANGED <<isRecording, recordingTime, error, mediaRecorderRef, chunksRef,
                 pendingGrants, promises, delivered, nChunks>>

\* pauseRecording.  MediaRecorder.pause() throws on an inactive recorder,
\* which ends the handler before the timer is touched.
PauseRecording ==
  /\ IF HasActiveRecorder /\ recorders[mediaRecorderRef].state # "inactive"
     THEN /\ recorders' = [recorders EXCEPT ![mediaRecorderRef].state = "paused"]
          /\ timers' = timers \ {intervalRef}
          /\ intervalRef' = 0
     ELSE UNCHANGED <<recorders, timers, intervalRef>>
  /\ UNCHANGED <<isRecording, recordingTime, error, mediaRecorderRef, chunksRef,
                 tracks, pendingGrants, promises, delivered,
                 nChunks>>

\* resumeRecording.  MediaRecorder.resume() throws on an inactive recorder.
ResumeRecording ==
  /\ Cardinality(timers) < MaxTimers
  /\ IF HasActiveRecorder /\ recorders[mediaRecorderRef].state # "inactive"
     THEN /\ recorders' = [recorders EXCEPT ![mediaRecorderRef].state = "recording"]
          /\ intervalRef' = SetInterval
          /\ timers' = timers \cup {SetInterval}
             ELSE UNCHANGED <<recorders, timers, intervalRef>>
  /\ UNCHANGED <<isRecording, recordingTime, error, mediaRecorderRef, chunksRef,
                 tracks, pendingGrants, promises, delivered, nChunks>>

\* A tick that also empties the chunk list.
TickDropsChunks(t) ==
  /\ t \in timers
  /\ recordingTime < MaxTime
  /\ recordingTime' = recordingTime + 1
  /\ chunksRef' = <<>>
  /\ UNCHANGED <<isRecording, error, mediaRecorderRef, intervalRef,
                 recorders, tracks, timers, pendingGrants,
                 promises, delivered, nChunks>>

\* One firing of interval t: setRecordingTime(prev => prev + 1).
Tick(t) ==
  /\ t \in timers
  /\ recordingTime < MaxTime
  /\ recordingTime' = recordingTime + 1
  /\ UNCHANGED <<isRecording, error, mediaRecorderRef, chunksRef, intervalRef,
                 recorders, tracks, timers, pendingGrants,
                 promises, delivered, nChunks>>


\* ------------------------------------------- submission: modal and upload
MaxRequests == 2    \* processMeeting calls in one behaviour
MaxRecordings == 2  \* recordings handed to the submission modal
MaxUploads == 1     \* processMeeting calls of the upload page

VARIABLES
  page,                 \* the mounted route: "record" or "upload"
  emails,               \* RecordingSubmissionModal: useState<string[]>([])
  meetingTitle,         \* RecordingSubmissionModal: useState('')
  meetingDate,          \* RecordingSubmissionModal: useState<Date>(new Date())
  isSubmitting,         \* RecordingSubmissionModal: useState(false)
  showSubmissionModal,  \* RecordingControls: useState(false)
  recordingBlob,        \* RecordingControls: useState<Blob | null>(null)
  recordings,           \* blobs handleStopRecording has received so far
  selectedFile,         \* Upload: useState<File | null>(null)
  upMeetingTitle,       \* Upload: meetingTitle
  upMeetingDate,        \* Upload: meetingDate, useState<Date>()
  participants,         \* Upload: useState<string[]>([])
  uploadProgress,       \* Upload: useState(0)
  isUploading,          \* Upload: useState(false)
  isProcessing,         \* Upload: useState(false)
  upError,              \* Upload: error
  progressIntervals,    \* Upload: requests whose progressInterval is set
  navigateTimers,       \* Upload: pending setTimeout(() => navigate('/'))
  requests,             \* the processMeeting calls, in call order
  lastToast,            \* the last toast({ title, description })
  navigateTo            \* the last navigate(target), "" if none

modalVars == <<emails, meetingTitle, meetingDate, isSubmitting>>
controlsVars == <<showSubmissionModal, recordingBlob, recordings>>
uploadVars == <<selectedFile, upMeetingTitle, upMeetingDate, participants,
                uploadProgress, isUploading, isProcessing, upError,
                progressIntervals, navigateTimers>>
submitVars == <<page, modalVars, controlsVars, uploadVars, requests, lastToast,
                navigateTo>>

NullBlob == "null"
NoFile == "null"
Undefined == "undefined"
Now == "now"
Addresses == {"a@x.com"}
Titles == {"", "Standup"}
Dates == {Now, "2024-01-15"}
Files == {"Standup.mp3"}
\* error.message of a rejected processMeeting: fetch's own failure, or the
\* message handleApiError takes from the server's answer.
NetworkFailure == "Failed to fetch"
UnexpectedError == "An unexpected error occurred"

\* The JSON body of a non-2xx answer: its message and error fields, "" for a
\* field that is absent.
NoBody == [message |-> "", error |-> ""]
ServerBodies == {[message |-> "Quota exceeded", error |-> ""],
                 [message |-> "Failed to fetch", error |-> ""],
                 [message |-> "", error |-> "Quota exceeded"]}
\* How a processMeeting call fails: fetch rejects, or the server answers
\* with a non-2xx status.
NoOutcome == [kind |-> "none", body |-> NoBody]
Outcomes == {[kind |-> "network", body |-> NoBody]}
            \cup {[kind |-> "rejected", body |-> b] : b \in ServerBodies}

\* handleApiError: errorData.message || errorData.error || errorMessage.
HandleApiError(body) ==
  IF body.message # "" THEN body.message
  ELSE IF body.error # "" THEN body.error
  ELSE UnexpectedError

\* error.message as the catch blocks of the callers read it.
FailureMessage(o) ==
  IF o.kind = "network" THEN NetworkFailure ELSE HandleApiError(o.body)
FailureMessages == {FailureMessage(o) : o \in Outcomes}

\* Date.prototype.toISOString; new Date() is Now.
ToISOString(d) ==
  CASE d = Now -> "2026-11-01T00:00:00.000Z"
    [] d = "2024-01-15" -> "2024-01-15T00:00:00.000Z"

\* file.name.replace(/\.[^/.]+$/, "").replace(/[_-]/g, " ")
FileTitle(f) == CASE f = "Standup.mp3" -> "Standup"

\* The blob of the n-th recording.
RecordingBlob(n) == <<"rec1", "rec2", "rec3">>[n]
\* new Blob([selectedFile], { type: selectedFile.type })
FileBlob(f) == f
\* meeting.id in the answer to the n-th processMeeting call.
MeetingId(n) == <<"m1", "m2", "m3">>[n]

\* toast({ title, description }); the description is the sequence of the
\* pieces its template literal joins.
NoToast == [title |-> "", description |-> <<>>]
Toast(t, d) == [title |-> t, description |-> d]
MissingInformation ==
  Toast("Missing Information", <<"Please fill in all required fields.">>)
\* `Your meeting "${meetingTitle}" is being processed. ...`
BeingProcessed(title) ==
  <<"Your meeting \"", title,
    "\" is being processed. You'll see it in your dashboard shortly.">>
\* `"${meetingTitle}" is being processed. ...`
UploadBeingProcessed(title) ==
  <<"\"", title,
    "\" is being processed. You'll see it in your dashboard shortly.">>
\* The toasts of the two catch blocks.
SubmissionFailed(o) == Toast("Submission Failed", <<FailureMessage(o)>>)
UploadFailed(o) == Toast("Upload Failed", <<FailureMessage(o)>>)
UploadValidationMsg == "Please select a file and provide a meeting title."

InitSubmitAt(p) ==
  /\ page = p
  /\ emails = <<>>
  /\ meetingTitle = ""
  /\ meetingDate = Now
  /\ isSubmitting = FALSE
  /\ showSubmissionModal = FALSE
  /\ recordingBlob = NullBlob
  /\ recordings = 0
  /\ selectedFile = NoFile
  /\ upMeetingTitle = ""
  /\ upMeetingDate = Undefined
  /\ participants = <<>>
  /\ uploadProgress = 0
  /\ isUploading = FALSE
  /\ isProcessing = FALSE
  /\ upError = NoError
  /\ progressIntervals = {}
  /\ navigateTimers = 0
  /\ requests = <<>>
  /\ lastToast = NoToast
  /\ navigateTo = ""

Requests == 1..Len(requests)

\* A processMeeting that also sends the elapsed seconds.
ProcessMeetingWithDuration(origin, meetingData) ==
  [origin |-> origin, status |-> "pending", outcome |-> NoOutcome,
   recording |-> meetingData.recordingBlob,
   title |-> meetingData.title,
   date |-> meetingData.date,
   participants |-> meetingData.participants,
   duration |-> recordingTime]

\* apiService.processMeeting up to its fetch: the multipart form it sends.
ProcessMeeting(origin, meetingData) ==
  [origin |-> origin, status |-> "pending", outcome |-> NoOutcome,
   recording |-> meetingData.recordingBlob,
   title |-> meetingData.title,
   date |-> meetingData.date,
   participants |-> meetingData.participants]

\* --- RecordingControls
\* handleStopRecording after stopRecording resolved with a blob.
HandleStopRecording ==
  /\ page = "record"
  /\ recordings < MaxRecordings
  /\ recordings' = recordings + 1
  /\ recordingBlob' = RecordingBlob(recordings + 1)
  /\ showSubmissionModal' = TRUE
  /\ lastToast' = Toast("Recording Stopped",
        <<"Complete the meeting details to process your recording.">>)
  /\ UNCHANGED <<page, modalVars, uploadVars, requests, navigateTo>>

\* handleCloseModal: the modal's onClose (Cancel, and the dialog's own
\* onOpenChange: Escape, overlay, close button).
HandleCloseModal ==
  /\ page = "record"
  /\ showSubmissionModal' = FALSE
  /\ recordingBlob' = NullBlob
  /\ UNCHANGED <<page, modalVars, recordings, uploadVars, requests, lastToast,
                 navigateTo>>

\* --- EmailChipInput as the two forms use it (addresses already trimmed,
\* lower-cased and well-formed)
AddEmail(list, email) ==
  IF \E k \in 1..Len(list) : list[k] = email THEN list ELSE Append(list, email)
RemoveEmail(list, email) == SelectSeq(list, LAMBDA x : x # email)

\* --- RecordingSubmissionModal
SetEmails ==
  /\ page = "record"
  /\ \E a \in Addresses :
       emails' \in {AddEmail(emails, a), RemoveEmail(emails, a)}
  /\ UNCHANGED <<page, meetingTitle, meetingDate, isSubmitting, controlsVars,
                 uploadVars, requests, lastToast, navigateTo>>

SetMeetingTitle ==
  /\ page = "record"
  /\ meetingTitle' \in Titles
  /\ UNCHANGED <<page, emails, meetingDate, isSubmitting, controlsVars,
                 uploadVars, requests, lastToast, navigateTo>>

\* The title input's onChange for what can be typed, white space included.
TypedTitles == Titles \cup {" "}
TypeMeetingTitle ==
  /\ page = "record"
  /\ meetingTitle' \in TypedTitles
  /\ UNCHANGED <<page, emails, meetingDate, isSubmitting, controlsVars,
                 uploadVars, requests, lastToast, navigateTo>>

SetMeetingDate ==
  /\ page = "record"
  /\ meetingDate' \in Dates
  /\ UNCHANGED <<page, emails, meetingTitle, isSubmitting, controlsVars,
                 uploadVars, requests, lastToast, navigateTo>>

\* A validation that forgets the participant list.
TitleOnlyValidation == recordingBlob = NullBlob \/ meetingTitle = ""

\* meetingTitle.trim() on Titles: the title of one space is all white space.
TrimTitle(title) == IF title = " " THEN "" ELSE title

\* The modal's canSubmit, which enables its submit button.
canSubmit ==
  Len(emails) > 0 /\ TrimTitle(meetingTitle) # "" /\ ~isSubmitting

\* The validation at the head of the modal's handleSubmit.
ModalDraftInvalid ==
  recordingBlob = NullBlob \/ Len(emails) = 0 \/ meetingTitle = ""

\* A handleSubmit without the validation at its head.
HandleSubmitUnvalidated ==
  /\ page = "record"
  /\ Len(requests) < MaxRequests
  /\ isSubmitting' = TRUE
  /\ requests' = Append(requests, ProcessMeeting("modal",
       [title |-> meetingTitle, date |-> ToISOString(meetingDate),
        participants |-> emails, recordingBlob |-> recordingBlob]))
  /\ UNCHANGED <<page, emails, meetingTitle, meetingDate, controlsVars,
                 uploadVars, lastToast, navigateTo>>

\* handleSubmit of the modal, up to its await.
HandleSubmit ==
  /\ page = "record"
  /\ IF ModalDraftInvalid
     THEN /\ lastToast' = MissingInformation
          /\ UNCHANGED <<isSubmitting, requests>>
     ELSE /\ Len(requests) < MaxRequests
          /\ isSubmitting' = TRUE
          /\ requests' = Append(requests, ProcessMeeting("modal",
               [title |-> meetingTitle, date |-> ToISOString(meetingDate),
                participants |-> emails, recordingBlob |-> recordingBlob]))
          /\ UNCHANGED lastToast
  /\ UNCHANGED <<page, emails, meetingTitle, meetingDate, controlsVars,
                 uploadVars, navigateTo>>

\* A success path that closes the modal without resetting the form.
ModalSubmitResolvedKeepsDraft(n) ==
  /\ requests[n].origin = "modal"
  /\ requests[n].status = "pending"
  /\ requests' = [requests EXCEPT ![n].status = "ok"]
  /\ lastToast' = Toast("Meeting Submitted Successfully!",
                        BeingProcessed(requests[n].title))
  /\ showSubmissionModal' = FALSE
  /\ recordingBlob' = NullBlob
  /\ navigateTo' = "/"
  /\ isSubmitting' = FALSE
  /\ UNCHANGED <<page, emails, meetingTitle, meetingDate, recordings,
                 uploadVars>>

\* processMeeting call n of the modal resolves: the rest of the try block,
\* onClose() being handleCloseModal, and the finally block.
ModalSubmitResolved(n) ==
  /\ requests[n].origin = "modal"
  /\ requests[n].status = "pending"
  /\ requests' = [requests EXCEPT ![n].status = "ok"]
  /\ lastToast' = Toast("Meeting Submitted Successfully!",
                        BeingProcessed(requests[n].title))
  /\ emails' = <<>>
  /\ meetingTitle' = ""
  /\ meetingDate' = Now
  /\ showSubmissionModal' = FALSE
  /\ recordingBlob' = NullBlob
  /\ navigateTo' = "/"
  /\ isSubmitting' = FALSE
  /\ UNCHANGED <<page, recordings, uploadVars>>

\* A rejection whose finally block is missing.
ModalSubmitRejectedStaysBusy(n) ==
  /\ requests[n].origin = "modal"
  /\ requests[n].status = "pending"
  /\ \E o \in Outcomes :
       /\ requests' = [requests EXCEPT ![n].status = "failed",
                                       ![n].outcome = o]
       /\ lastToast' = SubmissionFailed(o)
  /\ UNCHANGED <<page, emails, meetingTitle, meetingDate, isSubmitting,
                 controlsVars, uploadVars, navigateTo>>

\* A catch block that sends the draft again by itself.
ModalSubmitRejectedRetries(n) ==
  /\ requests[n].origin = "modal"
  /\ requests[n].status = "pending"
  /\ \E o \in Outcomes :
       /\ requests' = Append([requests EXCEPT ![n].status = "failed",
                                              ![n].outcome = o],
             ProcessMeeting("modal",
               [title |-> requests[n].title, date |-> requests[n].date,
                participants |-> requests[n].participants,
                recordingBlob |-> requests[n].recording]))
       /\ lastToast' = SubmissionFailed(o)
  /\ UNCHANGED <<page, modalVars, controlsVars, uploadVars, navigateTo>>

\* processMeeting call n of the modal rejects: the catch and finally blocks.
ModalSubmitRejected(n) ==
  /\ requests[n].origin = "modal"
  /\ requests[n].status = "pending"
  /\ \E o \in Outcomes :
       /\ requests' = [requests EXCEPT ![n].status = "failed",
                                       ![n].outcome = o]
       /\ lastToast' = SubmissionFailed(o)
  /\ isSubmitting' = FALSE
  /\ UNCHANGED <<page, emails, meetingTitle, meetingDate, controlsVars,
                 uploadVars, navigateTo>>


\* --- Upload page
HandleFileSelect ==
  /\ page = "upload"
  /\ \E f \in Files :
       /\ selectedFile' = f
       /\ upMeetingTitle' = IF upMeetingTitle = "" THEN FileTitle(f)
                            ELSE upMeetingTitle
  /\ upError' = NoError
  /\ UNCHANGED <<page, modalVars, controlsVars, upMeetingDate, participants,
                 uploadProgress, isUploading, isProcessing, progressIntervals,
                 navigateTimers, requests, lastToast, navigateTo>>

UploadSetMeetingTitle ==
  /\ page = "upload"
  /\ upMeetingTitle' \in Titles
  /\ UNCHANGED <<page, modalVars, controlsVars, selectedFile, upMeetingDate,
                 participants, uploadProgress, isUploading, isProcessing,
                 upError, progressIntervals, navigateTimers, requests,
                 lastToast, navigateTo>>

\* The calendar's onSelect with a picked day.
UploadSetMeetingDate ==
  /\ page = "upload"
  /\ upMeetingDate' = "2024-01-15"
  /\ UNCHANGED <<page, modalVars, controlsVars, selectedFile, upMeetingTitle,
                 participants, uploadProgress, isUploading, isProcessing,
                 upError, progressIntervals, navigateTimers, requests,
                 lastToast, navigateTo>>

SetParticipants ==
  /\ page = "upload"
  /\ \E a \in Addresses :
       participants' \in {AddEmail(participants, a), RemoveEmail(participants, a)}
  /\ UNCHANGED <<page, modalVars, controlsVars, selectedFile, upMeetingTitle,
                 upMeetingDate, uploadProgress, isUploading, isProcessing,
                 upError, progressIntervals, navigateTimers, requests,
                 lastToast, navigateTo>>

\* The validation at the head of Upload's handleSubmit.
UploadDraftInvalid == selectedFile = NoFile \/ upMeetingTitle = ""

\* Upload's handleSubmit, up to its await.
UploadHandleSubmit ==
  /\ page = "upload"
  /\ IF UploadDraftInvalid
     THEN /\ upError' = UploadValidationMsg
          /\ UNCHANGED <<isUploading, progressIntervals, requests>>
     ELSE /\ Len(requests) < MaxUploads
          /\ isUploading' = TRUE
          /\ upError' = NoError
          /\ progressIntervals' = progressIntervals \cup {Len(requests) + 1}
          /\ requests' = Append(requests, ProcessMeeting("upload",
               [title |-> upMeetingTitle,
                date |-> IF upMeetingDate # Undefined
                         THEN ToISOString(upMeetingDate) ELSE ToISOString(Now),
                participants |-> participants,
                recordingBlob |-> FileBlob(selectedFile)]))
  /\ UNCHANGED <<page, modalVars, controlsVars, selectedFile, upMeetingTitle,
                 upMeetingDate, participants, uploadProgress, isProcessing,
                 navigateTimers, lastToast, navigateTo>>

\* One firing of the progressInterval of call n.
ProgressTick(n) ==
  /\ n \in progressIntervals
  /\ IF uploadProgress >= 90
     THEN /\ progressIntervals' = progressIntervals \ {n}
          /\ uploadProgress' = 90
     ELSE /\ uploadProgress' = uploadProgress + 10
          /\ UNCHANGED progressIntervals
  /\ UNCHANGED <<page, modalVars, controlsVars, selectedFile, upMeetingTitle,
                 upMeetingDate, participants, isUploading, isProcessing,
                 upError, navigateTimers, requests, lastToast, navigateTo>>

\* processMeeting call n of the upload page resolves: the rest of the try block.
UploadSubmitResolved(n) ==
  /\ requests[n].origin = "upload"
  /\ requests[n].status = "pending"
  /\ requests' = [requests EXCEPT ![n].status = "ok"]
  /\ progressIntervals' = progressIntervals \ {n}
  /\ uploadProgress' = 100
  /\ isUploading' = FALSE
  /\ isProcessing' = TRUE
  /\ lastToast' = Toast("Meeting Uploaded Successfully!",
                        UploadBeingProcessed(requests[n].title))
  /\ navigateTimers' = navigateTimers + 1
  /\ UNCHANGED <<page, modalVars, controlsVars, selectedFile, upMeetingTitle,
                 upMeetingDate, participants, upError, navigateTo>>

\* processMeeting call n of the upload page rejects: the catch block.
UploadSubmitRejected(n) ==
  /\ requests[n].origin = "upload"
  /\ requests[n].status = "pending"
  /\ \E o \in Outcomes :
       /\ requests' = [requests EXCEPT ![n].status = "failed",
                                       ![n].outcome = o]
       /\ upError' = FailureMessage(o)
       /\ lastToast' = UploadFailed(o)
  /\ isUploading' = FALSE
  /\ isProcessing' = FALSE
  /\ uploadProgress' = 0
  /\ UNCHANGED <<page, modalVars, controlsVars, selectedFile, upMeetingTitle,
                 upMeetingDate, participants, progressIntervals,
                 navigateTimers, navigateTo>>

\* setTimeout(() => navigate('/'), 2000) fires.
NavigateTimeout ==
  /\ navigateTimers > 0
  /\ navigateTimers' = navigateTimers - 1
  /\ navigateTo' = "/"
  /\ UNCHANGED <<page, modalVars, controlsVars, selectedFile, upMeetingTitle,
                 upMeetingDate, participants, uploadProgress, isUploading,
                 isProcessing, upError, progressIntervals, requests, lastToast>>

\* ------------------------------------------------------ uploadRecording
MaxBytes == 3       \* size of the request body, in units the platform reports
MaxEvents == 3      \* upload progress events in one transfer

VARIABLES
  xhrState,          \* "unsent", "sent", or how the returned promise settled
  xhrTotal,          \* event.total of the transfer
  xhrLoaded,         \* event.loaded of the latest progress event
  xhrEvents,         \* number of progress events dispatched
  onProgress,        \* whether the caller supplied a callback
  progressReports    \* the values onProgress was called with, in order

transportVars == <<xhrState, xhrTotal, xhrLoaded, xhrEvents, onProgress,
                   progressReports>>

InitTransport ==
  /\ xhrState = "unsent"
  /\ xhrTotal = 0
  /\ xhrLoaded = 0
  /\ xhrEvents = 0
  /\ onProgress = FALSE
  /\ progressReports = <<>>

\* Math.round(x) for x = n / d >= 0: the integer nearest to x, halves up.
MathRound(n, d) == (2 * n + d) \div (2 * d)

\* A progress figure in thousandths.
ProgressPerMille(loaded, total) == MathRound(loaded * 1000, total)

\* Math.round((event.loaded / event.total) * 100).
Progress(loaded, total) == MathRound(loaded * 100, total)

\* uploadRecording(recordingFile, onProgress?) up to xhr.send(formData).
UploadRecording ==
  /\ xhrState = "unsent"
  /\ xhrState' = "sent"
  /\ xhrTotal' \in 1..MaxBytes
  /\ onProgress' \in BOOLEAN
  /\ UNCHANGED <<xhrLoaded, xhrEvents, progressReports>>

\* A progress event of xhr.upload: the platform reports a byte count that
\* does not decrease and does not exceed the total.
UploadProgress ==
  /\ xhrState = "sent"
  /\ xhrEvents < MaxEvents
  /\ xhrEvents' = xhrEvents + 1
  /\ xhrLoaded' \in xhrLoaded..xhrTotal
  /\ \E lengthComputable \in BOOLEAN :
       progressReports' =
         IF onProgress /\ lengthComputable
         THEN Append(progressReports, Progress(xhrLoaded', xhrTotal))
         ELSE progressReports
  /\ UNCHANGED <<xhrState, xhrTotal, onProgress>>

\* The load event: a 2xx answer that parses resolves, anything else rejects.
UploadLoad ==
  /\ xhrState = "sent"
  /\ \E status \in {200, 500}, parses \in BOOLEAN :
       xhrState' = IF status >= 200 /\ status < 300 /\ parses
                   THEN "resolved" ELSE "rejected"
  /\ UNCHANGED <<xhrTotal, xhrLoaded, xhrEvents, onProgress, progressReports>>

\* The error event.
UploadError ==
  /\ xhrState = "sent"
  /\ xhrState' = "rejected"
  /\ UNCHANGED <<xhrTotal, xhrLoaded, xhrEvents, onProgress, progressReports>>

\* ------------------------------------------- ApiService: stored credentials
MaxCalls == 3       \* login, logout and getUserProfile calls in one behaviour

VARIABLES
  accessToken,       \* localStorage item STORAGE_KEYS.ACCESS_TOKEN
  refreshToken,      \* localStorage item STORAGE_KEYS.REFRESH_TOKEN
  userProfile,       \* localStorage item STORAGE_KEYS.USER_PROFILE
  tokenExpiration,   \* localStorage item 'tokenExpiration'
  authCalls          \* the calls made: [op, pc], pc where the call stands

authVars == <<accessToken, refreshToken, userProfile, tokenExpiration,
              authCalls>>

\* localStorage.getItem on a key that is not stored.
Absent == "null"

InitAuth ==
  /\ accessToken = Absent
  /\ refreshToken = Absent
  /\ userProfile = Absent
  /\ tokenExpiration = Absent
  /\ authCalls = <<>>

AuthCalls == 1..Len(authCalls)
AuthOps == {"login", "logout", "getUserProfile"}

\* storeTokens(tokens).
storeTokens ==
  /\ accessToken' = "accessToken"
  /\ refreshToken' = "refreshToken"
  /\ tokenExpiration' = "expirationTime"

\* A clearAuthData that leaves the cached profile.
clearAuthDataKeepsProfile ==
  /\ accessToken' = Absent
  /\ refreshToken' = Absent
  /\ tokenExpiration' = Absent
  /\ UNCHANGED userProfile

\* clearAuthData().
clearAuthData ==
  /\ accessToken' = Absent
  /\ refreshToken' = Absent
  /\ userProfile' = Absent
  /\ tokenExpiration' = Absent

authStorage == <<accessToken, refreshToken, userProfile, tokenExpiration>>

\* Call c moves on to pc.
Goto(c, pc) == authCalls' = [authCalls EXCEPT ![c].pc = pc]

\* login, logout or getUserProfile up to its first await.  logout without a
\* stored refresh token sends nothing and runs its finally block at once.
AuthCall(op) ==
  /\ Len(authCalls) < MaxCalls
  /\ IF op = "logout" /\ refreshToken = Absent
     THEN /\ authCalls' = Append(authCalls, [op |-> op, pc |-> "done"])
          /\ clearAuthData
     ELSE /\ authCalls' = Append(authCalls, [op |-> op, pc |-> "request"])
          /\ UNCHANGED authStorage

\* The request of call c has its final answer: the rest of the operation.
\* logout runs its finally block whatever makeRequest did.
AuthSettle(c, ok) ==
  IF authCalls[c].op = "logout"
  THEN Goto(c, "done") /\ clearAuthData
  ELSE IF ~ok
  THEN Goto(c, "rejected") /\ UNCHANGED authStorage
  ELSE IF authCalls[c].op = "login"
  THEN Goto(c, "resolved") /\ storeTokens /\ userProfile' = "user"
  ELSE /\ Goto(c, "resolved")
       /\ userProfile' = "user"
       /\ UNCHANGED <<accessToken, refreshToken, tokenExpiration>>

\* The catch block of makeRequest after a refresh that failed: the stored
\* data is cleared and "Session expired" is thrown.
AuthExpire(c) ==
  /\ clearAuthData
  /\ Goto(c, IF authCalls[c].op = "logout" THEN "done" ELSE "expired")

\* The first answer to the request of call c.  A 401 to a call that requires
\* authentication starts refreshAccessToken, which throws at once when no
\* refresh token is stored.
AuthAnswer(c, status) ==
  /\ authCalls[c].pc = "request"
  /\ IF status = 401 /\ authCalls[c].op # "login"
     THEN IF refreshToken = Absent
          THEN AuthExpire(c)
          ELSE Goto(c, "refresh") /\ UNCHANGED authStorage
     ELSE AuthSettle(c, status = 200)

\* The answer to the refresh request of call c: the new tokens are stored
\* and the original request is sent again, or the refresh has failed.
RefreshAnswer(c, ok) ==
  /\ authCalls[c].pc = "refresh"
  /\ IF ok
     THEN Goto(c, "retry") /\ storeTokens /\ UNCHANGED userProfile
     ELSE AuthExpire(c)

\* The answer to the request sent again after a refresh; nothing is
\* refreshed a second time.
RetryAnswer(c, status) ==
  /\ authCalls[c].pc = "retry"
  /\ AuthSettle(c, status = 200)

\* ------------------------------------------------------- EmailChipInput
\* Text is a sequence of one-character strings, so that trimming, lower-casing
\* and the shape test are computed.  The list the component edits is its
\* emails prop, here the modal's emails with onChange = setEmails.
VARIABLES
  inputValue,        \* useState('')
  inputError         \* EmailChipInput's error, useState('')

inputVars == <<inputValue, inputError>>

InvalidEmailMsg == "Please enter a valid email address"
DuplicateEmailMsg == "This email has already been added"

\* What the user may have typed.
InputTexts ==
  { <<>>, <<" ">>,
    <<"a", "@", "x", ".", "c">>, <<"A", "@", "x", ".", "c">>,
    <<" ", "a", "@", "x", ".", "c", " ">>,
    <<"b", "@", "x", ".", "c">>, <<"B", "@", "X", ".", "c">>,
    <<"c", "@", "x", ".", "c">>,
    <<"a", "@", "x">>, <<"a", " ", "@", "x", ".", "c">> }

InitInput ==
  /\ inputValue = <<>>
  /\ inputError = ""

RECURSIVE TrimStart(_)
TrimStart(s) ==
  IF s # <<>> /\ Head(s) = " " THEN TrimStart(Tail(s)) ELSE s
RECURSIVE TrimEnd(_)
TrimEnd(s) ==
  IF s # <<>> /\ s[Len(s)] = " " THEN TrimEnd(SubSeq(s, 1, Len(s) - 1)) ELSE s
\* String.prototype.trim
Trim(s) == TrimEnd(TrimStart(s))

LowerChar(ch) ==
  CASE ch = "A" -> "a" [] ch = "B" -> "b" [] ch = "C" -> "c" [] ch = "X" -> "x"
    [] OTHER -> ch
\* String.prototype.toLowerCase
ToLowerCase(s) == [i \in 1..Len(s) |-> LowerChar(s[i])]

\* /^[^\s@]+@[^\s@]+\.[^\s@]+$/.test(email.trim())
isValidEmail(email) ==
  LET t == Trim(email) IN
  \E i \in 1..Len(t) :
    /\ t[i] = "@"
    /\ \A k \in (1..Len(t)) \ {i} : t[k] \notin {" ", "@"}
    /\ i >= 2
    /\ \E j \in (i + 2)..(Len(t) - 1) : t[j] = "."

\* emails.includes(x)
Includes(list, x) == \E k \in 1..Len(list) : list[k] = x

\* An addEmail that compares and stores the text as typed.
addEmailKeepsCase(email) ==
  LET trimmedEmail == Trim(email) IN
  IF trimmedEmail = <<>>
  THEN UNCHANGED <<emails, inputValue, inputError>>
  ELSE IF ~isValidEmail(trimmedEmail)
  THEN inputError' = InvalidEmailMsg /\ UNCHANGED <<emails, inputValue>>
  ELSE IF Includes(emails, trimmedEmail)
  THEN inputError' = DuplicateEmailMsg /\ UNCHANGED <<emails, inputValue>>
  ELSE /\ emails' = Append(emails, trimmedEmail)
       /\ inputValue' = <<>>
       /\ inputError' = ""

\* An addEmail that puts the new address in front.
addEmailPrepends(email) ==
  LET trimmedEmail == ToLowerCase(Trim(email)) IN
  IF trimmedEmail = <<>>
  THEN UNCHANGED <<emails, inputValue, inputError>>
  ELSE IF ~isValidEmail(trimmedEmail)
  THEN inputError' = InvalidEmailMsg /\ UNCHANGED <<emails, inputValue>>
  ELSE IF Includes(emails, trimmedEmail)
  THEN inputError' = DuplicateEmailMsg /\ UNCHANGED <<emails, inputValue>>
  ELSE /\ emails' = <<trimmedEmail>> \o emails
       /\ inputValue' = <<>>
       /\ inputError' = ""

\* An addEmail that treats the empty token as malformed.
addEmailSignalsEmpty(email) ==
  LET trimmedEmail == ToLowerCase(Trim(email)) IN
  IF ~isValidEmail(trimmedEmail)
  THEN inputError' = InvalidEmailMsg /\ UNCHANGED <<emails, inputValue>>
  ELSE IF Includes(emails, trimmedEmail)
  THEN inputError' = DuplicateEmailMsg /\ UNCHANGED <<emails, inputValue>>
  ELSE /\ emails' = Append(emails, trimmedEmail)
       /\ inputValue' = <<>>
       /\ inputError' = ""

\* An addEmail that reports a duplicate and appends it all the same.
addEmailAppendsDuplicate(email) ==
  LET trimmedEmail == ToLowerCase(Trim(email)) IN
  IF trimmedEmail = <<>>
  THEN UNCHANGED <<emails, inputValue, inputError>>
  ELSE IF ~isValidEmail(trimmedEmail)
  THEN inputError' = InvalidEmailMsg /\ UNCHANGED <<emails, inputValue>>
  ELSE /\ emails' = Append(emails, trimmedEmail)
       /\ inputError' = IF Includes(emails, trimmedEmail)
                        THEN DuplicateEmailMsg ELSE ""
       /\ inputValue' = IF Includes(emails, trimmedEmail)
                        THEN inputValue ELSE <<>>

addEmail(email) ==
  LET trimmedEmail == ToLowerCase(Trim(email)) IN
  IF trimmedEmail = <<>>
  THEN UNCHANGED <<emails, inputValue, inputError>>
  ELSE IF ~isValidEmail(trimmedEmail)
  THEN inputError' = InvalidEmailMsg /\ UNCHANGED <<emails, inputValue>>
  ELSE IF Includes(emails, trimmedEmail)
  THEN inputError' = DuplicateEmailMsg /\ UNCHANGED <<emails, inputValue>>
  ELSE /\ emails' = Append(emails, trimmedEmail)
       /\ inputValue' = <<>>
       /\ inputError' = ""

\* A removeEmail that compares without regard to case.
removeEmailAnyCase(emailToRemove) ==
  /\ emails' = SelectSeq(emails, LAMBDA email :
                  ToLowerCase(email) # ToLowerCase(emailToRemove))
  /\ UNCHANGED <<inputValue, inputError>>

removeEmail(emailToRemove) ==
  /\ emails' = RemoveEmail(emails, emailToRemove)
  /\ UNCHANGED <<inputValue, inputError>>

\* Everything outside the component and its emails prop.
inputFrame == <<captureVars, page, meetingTitle, meetingDate, isSubmitting,
                controlsVars, uploadVars, requests, lastToast, navigateTo,
                transportVars, authVars>>

\* The text input's onChange.
HandleInputChange ==
  /\ inputValue' \in InputTexts
  /\ inputError' = ""
  /\ UNCHANGED <<emails, inputFrame>>

Keys == {"Enter", ",", " ", "Backspace"}
handleKeyDown(key) ==
  /\ IF key \in {"Enter", ",", " "}
     THEN addEmail(inputValue)
     ELSE IF key = "Backspace" /\ inputValue = <<>> /\ Len(emails) > 0
     THEN removeEmail(emails[Len(emails)])
     ELSE UNCHANGED <<emails, inputValue, inputError>>
  /\ UNCHANGED inputFrame

\* A blur that commits nothing.
handleBlurDiscards ==
  /\ UNCHANGED <<emails, inputValue, inputError>>
  /\ UNCHANGED inputFrame

handleBlur ==
  /\ IF Trim(inputValue) # <<>>
     THEN addEmail(inputValue)
     ELSE UNCHANGED <<emails, inputValue, inputError>>
  /\ UNCHANGED inputFrame

\* The X button of chip i.
RemoveChip(i) ==
  /\ removeEmail(emails[i])
  /\ UNCHANGED inputFrame

\* removeEmail called with any value, present in the list or not.
RemoveValue(value) ==
  /\ removeEmail(value)
  /\ UNCHANGED inputFrame

\* ---------------------------------------------------------- specifications
vars == <<captureVars, submitVars, inputVars, transportVars, authVars>>

\* The capture controller of one RecordingControls instance.
Init == InitCapture /\ InitSubmitAt("record") /\ InitInput /\ InitTransport /\ InitAuth
Next ==
  \/ StartRecording /\ UNCHANGED <<submitVars, inputVars, transportVars, authVars>>
  \/ GetUserMediaResolve /\ UNCHANGED <<submitVars, inputVars, transportVars, authVars>>
  \/ GetUserMediaReject /\ UNCHANGED <<submitVars, inputVars, transportVars, authVars>>
  \/ MediaRecorderThrows /\ UNCHANGED <<submitVars, inputVars, transportVars, authVars>>
  \/ (\E r \in 1..Len(recorders) : RecorderData(r)) /\ UNCHANGED <<submitVars, inputVars, transportVars, authVars>>
  \/ (\E r \in 1..Len(recorders) : RecorderFinalData(r)) /\ UNCHANGED <<submitVars, inputVars, transportVars, authVars>>
  \/ (\E r \in 1..Len(recorders) : RecorderStop(r)) /\ UNCHANGED <<submitVars, inputVars, transportVars, authVars>>
  \/ StopRecording /\ UNCHANGED <<submitVars, inputVars, transportVars, authVars>>
  \/ PauseRecording /\ UNCHANGED <<submitVars, inputVars, transportVars, authVars>>
  \/ ResumeRecording /\ UNCHANGED <<submitVars, inputVars, transportVars, authVars>>
  \/ (\E t \in timers : Tick(t)) /\ UNCHANGED <<submitVars, inputVars, transportVars, authVars>>
Spec == Init /\ [][Next]_vars

\* RecordingControls around its useMediaRecorder: the handlers with what they
\* do once the hook's promise has settled.
RecordingStarted ==
  Toast("Recording Started", <<"Your meeting is now being recorded.">>)
StopFailed == Toast("Error", <<"Failed to stop recording properly.">>)

\* handleStartRecording resumes after startRecording, which has caught its
\* own failure: the toast follows a grant and a refusal alike.
HandleStartRecording(outcome) ==
  /\ outcome
  /\ lastToast' = RecordingStarted
  /\ UNCHANGED <<page, modalVars, controlsVars, uploadVars, requests,
                 navigateTo>>

\* A handleStopRecording that lacks the `if (blob)` test.
HandleStopRecordingAnyResult ==
  /\ StopRecording
  /\ IF ~HasActiveRecorder
     THEN HandleStopRecording
     ELSE UNCHANGED submitVars

\* handleStopRecording up to its await; a promise already settled with null
\* skips the `if (blob)` block, a rejected one reaches the catch block.
HandleStopRecordingCall ==
  /\ StopRecording
  /\ IF HasActiveRecorder /\ recorders[mediaRecorderRef].state = "inactive"
     THEN /\ lastToast' = StopFailed
          /\ UNCHANGED <<page, modalVars, controlsVars, uploadVars, requests,
                         navigateTo>>
     ELSE UNCHANGED submitVars

\* The stop event of recorder r, and handleStopRecording resuming with the
\* blob when that event resolves its promise.
HandleStopRecordingResume(r) ==
  /\ RecorderStop(r)
  /\ IF recorders[r].onstop # 0
     THEN IF promises[recorders[r].onstop].status = "pending"
          THEN HandleStopRecording
          ELSE UNCHANGED submitVars
     ELSE UNCHANGED submitVars

\* What RecordingControls renders.
ErrorRendered == error # NoError
StartButtonRendered == ~ErrorRendered /\ ~isRecording
StopButtonRendered == ~ErrorRendered /\ isRecording

ControlsInit == InitCapture /\ InitSubmitAt("record") /\ InitInput /\ InitTransport /\ InitAuth
ControlsNext ==
  \/ StartRecording /\ UNCHANGED <<submitVars, inputVars, transportVars, authVars>>
  \/ HandleStartRecording(GetUserMediaResolve) /\ UNCHANGED <<inputVars, transportVars, authVars>>
  \/ HandleStartRecording(GetUserMediaReject) /\ UNCHANGED <<inputVars, transportVars, authVars>>
  \/ HandleStartRecording(MediaRecorderThrows) /\ UNCHANGED <<inputVars, transportVars, authVars>>
  \/ (\E r \in 1..Len(recorders) : RecorderData(r)) /\ UNCHANGED <<submitVars, inputVars, transportVars, authVars>>
  \/ (\E r \in 1..Len(recorders) : RecorderFinalData(r)) /\ UNCHANGED <<submitVars, inputVars, transportVars, authVars>>
  \/ (\E r \in 1..Len(recorders) : HandleStopRecordingResume(r)) /\ UNCHANGED <<inputVars, transportVars, authVars>>
  \/ HandleStopRecordingCall /\ UNCHANGED <<inputVars, transportVars, authVars>>
  \/ PauseRecording /\ UNCHANGED <<submitVars, inputVars, transportVars, authVars>>
  \/ ResumeRecording /\ UNCHANGED <<submitVars, inputVars, transportVars, authVars>>
  \/ (\E t \in timers : Tick(t)) /\ UNCHANGED <<submitVars, inputVars, transportVars, authVars>>
ControlsSpec == ControlsInit /\ [][ControlsNext]_vars

\* The recording submission modal of one RecordingControls instance.
ModalInit == InitCapture /\ InitSubmitAt("record") /\ InitInput /\ InitTransport /\ InitAuth
ModalNext ==
  \/ HandleStopRecording /\ UNCHANGED <<captureVars, inputVars, transportVars, authVars>>
  \/ HandleCloseModal /\ UNCHANGED <<captureVars, inputVars, transportVars, authVars>>
  \/ SetEmails /\ UNCHANGED <<captureVars, inputVars, transportVars, authVars>>
  \/ SetMeetingTitle /\ UNCHANGED <<captureVars, inputVars, transportVars, authVars>>
  \/ SetMeetingDate /\ UNCHANGED <<captureVars, inputVars, transportVars, authVars>>
  \/ HandleSubmit /\ UNCHANGED <<captureVars, inputVars, transportVars, authVars>>
  \/ (\E n \in Requests : ModalSubmitResolved(n)) /\ UNCHANGED <<captureVars, inputVars, transportVars, authVars>>
  \/ (\E n \in Requests : ModalSubmitRejected(n)) /\ UNCHANGED <<captureVars, inputVars, transportVars, authVars>>
ModalSpec == ModalInit /\ [][ModalNext]_vars

\* The submission paths: the recording modal or the upload page.
SubmitInit ==
  InitCapture /\ InitInput /\ InitTransport /\ InitAuth /\ \E p \in {"record", "upload"} : InitSubmitAt(p)
SubmitNext ==
  \/ HandleStopRecording /\ UNCHANGED <<captureVars, inputVars, transportVars, authVars>>
  \/ HandleCloseModal /\ UNCHANGED <<captureVars, inputVars, transportVars, authVars>>
  \/ SetEmails /\ UNCHANGED <<captureVars, inputVars, transportVars, authVars>>
  \/ SetMeetingTitle /\ UNCHANGED <<captureVars, inputVars, transportVars, authVars>>
  \/ SetMeetingDate /\ UNCHANGED <<captureVars, inputVars, transportVars, authVars>>
  \/ HandleSubmit /\ UNCHANGED <<captureVars, inputVars, transportVars, authVars>>
  \/ (\E n \in Requests : ModalSubmitResolved(n)) /\ UNCHANGED <<captureVars, inputVars, transportVars, authVars>>
  \/ (\E n \in Requests : ModalSubmitRejected(n)) /\ UNCHANGED <<captureVars, inputVars, transportVars, authVars>>
  \/ HandleFileSelect /\ UNCHANGED <<captureVars, inputVars, transportVars, authVars>>
  \/ UploadSetMeetingTitle /\ UNCHANGED <<captureVars, inputVars, transportVars, authVars>>
  \/ UploadSetMeetingDate /\ UNCHANGED <<captureVars, inputVars, transportVars, authVars>>
  \/ SetParticipants /\ UNCHANGED <<captureVars, inputVars, transportVars, authVars>>
  \/ UploadHandleSubmit /\ UNCHANGED <<captureVars, inputVars, transportVars, authVars>>
  \/ (\E n \in Requests : ProgressTick(n)) /\ UNCHANGED <<captureVars, inputVars, transportVars, authVars>>
  \/ (\E n \in Requests : UploadSubmitResolved(n)) /\ UNCHANGED <<captureVars, inputVars, transportVars, authVars>>
  \/ (\E n \in Requests : UploadSubmitRejected(n)) /\ UNCHANGED <<captureVars, inputVars, transportVars, authVars>>
  \/ NavigateTimeout /\ UNCHANGED <<captureVars, inputVars, transportVars, authVars>>
SubmitSpec == SubmitInit /\ [][SubmitNext]_vars

\* One EmailChipInput, mounted in the recording submission modal.
InputInit == InitCapture /\ InitSubmitAt("record") /\ InitInput /\ InitTransport /\ InitAuth
InputNext ==
  \/ HandleInputChange
  \/ \E key \in Keys : handleKeyDown(key)
  \/ handleBlur
  \/ \E i \in 1..Len(emails) : RemoveChip(i)
  \/ \E value \in InputTexts : RemoveValue(value)
InputSpec == InputInit /\ [][InputNext]_vars

\* The modal's draft with titles of white space, validated and submitted.
DraftInit == InitCapture /\ InitSubmitAt("record") /\ InitInput /\ InitTransport /\ InitAuth
DraftNext ==
  \/ HandleStopRecording /\ UNCHANGED <<captureVars, inputVars, transportVars, authVars>>
  \/ HandleCloseModal /\ UNCHANGED <<captureVars, inputVars, transportVars, authVars>>
  \/ SetEmails /\ UNCHANGED <<captureVars, inputVars, transportVars, authVars>>
  \/ TypeMeetingTitle /\ UNCHANGED <<captureVars, inputVars, transportVars, authVars>>
  \/ HandleSubmit /\ UNCHANGED <<captureVars, inputVars, transportVars, authVars>>
  \/ (\E n \in Requests : ModalSubmitResolved(n)) /\ UNCHANGED <<captureVars, inputVars, transportVars, authVars>>
  \/ (\E n \in Requests : ModalSubmitRejected(n)) /\ UNCHANGED <<captureVars, inputVars, transportVars, authVars>>
DraftSpec == DraftInit /\ [][DraftNext]_vars

\* The same with a transport that answers every call in the end.
ModalAnswer ==
  /\ \E n \in Requests : ModalSubmitResolved(n) \/ ModalSubmitRejected(n)
  /\ UNCHANGED <<captureVars, inputVars, transportVars, authVars>>
DraftLiveSpec == DraftInit /\ [][DraftNext]_vars /\ WF_vars(ModalAnswer)

\* One uploadRecording call of the API service.
TransportInit == InitCapture /\ InitSubmitAt("record") /\ InitInput /\ InitTransport /\ InitAuth
TransportNext ==
  \/ UploadRecording /\ UNCHANGED <<captureVars, submitVars, inputVars, authVars>>
  \/ UploadProgress /\ UNCHANGED <<captureVars, submitVars, inputVars, authVars>>
  \/ UploadLoad /\ UNCHANGED <<captureVars, submitVars, inputVars, authVars>>
  \/ UploadError /\ UNCHANGED <<captureVars, submitVars, inputVars, authVars>>
TransportSpec == TransportInit /\ [][TransportNext]_vars

\* The credentials in localStorage under login, logout and getUserProfile.
AuthInit == InitCapture /\ InitSubmitAt("record") /\ InitInput /\ InitTransport /\ InitAuth
AuthNext ==
  \/ (\E op \in AuthOps : AuthCall(op)) /\ UNCHANGED <<captureVars, submitVars, inputVars, transportVars>>
  \/ (\E c \in AuthCalls, status \in {200, 401, 500} : AuthAnswer(c, status)) /\ UNCHANGED <<captureVars, submitVars, inputVars, transportVars>>
  \/ (\E c \in AuthCalls, ok \in BOOLEAN : RefreshAnswer(c, ok)) /\ UNCHANGED <<captureVars, submitVars, inputVars, transportVars>>
  \/ (\E c \in AuthCalls, status \in {200, 401, 500} : RetryAnswer(c, status)) /\ UNCHANGED <<captureVars, submitVars, inputVars, transportVars>>
AuthSpec == AuthInit /\ [][AuthNext]_vars

\* ------------------------------------------------- capture: derived notions
Recorders == 1..Len(recorders)
Promises == 1..Len(promises)

\* Recorder r captures from a stream whose tracks are live.
LiveRecorder(r) ==
  recorders[r].state # "inactive" /\ tracks[recorders[r].stream] = "live"

\* The session as the hook's callers see it.
SessionRecording ==
  HasActiveRecorder /\ recorders[mediaRecorderRef].state = "recording"
SessionPaused ==
  HasActiveRecorder /\ recorders[mediaRecorderRef].state = "paused"

\* Step predicate: the stop event of promise p's recorder resolves p.
Finalizes(p) == promises[p].status = "pending" /\ promises'[p].status = "blob"

\* Step predicates: a suspended startRecording is granted, or is refused.
Granted == Len(recorders') = Len(recorders) + 1
Refused == pendingGrants' = pendingGrants - 1 /\ Len(recorders') = Len(recorders)

\* ---------------------------------------------------------- capture claims

\* C1: in every reachable state at most one recorder with a live capture
\* stream is active, whatever the sequence of start/stop/pause/resume calls.
C1_AtMostOneLiveRecorder ==
  Cardinality({r \in Recorders : LiveRecorder(r)}) <= 1

\* C3: the blob stopRecording returns is built from exactly the chunks its
\* session's recorder delivered, in arrival order, none dropped, duplicated or
\* reordered (so its size is the sum of their sizes).
C3_BlobIsDeliveredChunks ==
  \A p \in Promises :
    promises[p].status = "blob" =>
      /\ NonEmpty(promises[p].blob.parts)
           = NonEmpty(delivered[promises[p].recorder])
      /\ BlobSize(promises[p].blob) = SumSizes(delivered[promises[p].recorder])

\* C4: when the stop event of a stopRecording call fires, the session is idle,
\* no tick timer is active, every track of the stopped session's stream is
\* stopped and the promise resolves to a blob of type audio/webm.
C4_StopFinalizesSession ==
  [][\A p \in Promises :
       Finalizes(p) =>
         /\ ~isRecording'
         /\ timers' = {}
         /\ tracks'[recorders[promises[p].recorder].stream] = "ended"
         /\ promises'[p].blob.type = AudioMime]_vars

\* C5 as stated: no chunk of a session arrives after its blob was finalized,
\* and a chunk is appended to the chunk list only while the session status is
\* recording, never while it is idle or paused.
C5_AppendOnlyWhileRecording ==
  /\ [](\A p \in Promises : promises[p].status = "blob" =>
          \A i \in 1..Len(delivered[promises[p].recorder]) :
            delivered[promises[p].recorder][i].id <= promises[p].seen)
  /\ [][Len(chunksRef') > Len(chunksRef) => SessionRecording]_vars

\* C5 as amended: a blob is finalized by the stop event only, after the last
\* chunk its recorder delivers: no chunk of that recorder arrives afterwards
\* and that recorder is inactive with no event left.  (Chunks are appended
\* while recording and also between stopRecording and the stop event, when
\* isRecording is already false.)
C5_NoChunkAfterFinalization ==
  \A p \in Promises :
    promises[p].status = "blob" =>
      /\ \A i \in 1..Len(delivered[promises[p].recorder]) :
           delivered[promises[p].recorder][i].id <= promises[p].seen
      /\ recorders[promises[p].recorder].state = "inactive"
      /\ recorders[promises[p].recorder].events = <<>>

\* C5 witness: a blob holding the final chunk, which arrived while the session
\* was already idle, and chunk events that followed the finalization.
C5_Witness ==
  \E p \in Promises :
    /\ promises[p].status = "blob"
    /\ promises[p].blob.parts # <<>>
    /\ nChunks > promises[p].seen
    /\ Len(recorders) > promises[p].recorder

\* C10: elapsed time counts exactly the ticks of the recording, unpaused
\* session: while paused no interval can increment recordingTime, and while
\* recording exactly one interval does, one increment per tick.
C10_TicksOnlyWhileRecording ==
  /\ SessionPaused => timers = {}
  /\ SessionRecording => Cardinality(timers) = 1

\* C11: pauseRecording while idle or already paused, and resumeRecording while
\* idle or while recording and not paused, are no-ops: the status,
\* recordingTime, the chunk list and the set of active timers are unchanged.
C11_NoOpOutsideValidState ==
  [][((PauseRecording /\ ~SessionRecording)
        \/ (ResumeRecording /\ ~SessionPaused)) =>
       UNCHANGED <<isRecording, recorders, recordingTime, chunksRef,
                   timers>>]_vars

\* C12: when a startRecording is granted the session is recording,
\* recordingTime is 0 whatever it was, the chunk list is empty and one more
\* interval is active; a step that raises recordingTime raises it by 1.
C12_GrantStartsSession ==
  [][/\ Granted =>
          /\ isRecording' /\ SessionRecording'
          /\ recordingTime' = 0
          /\ chunksRef' = <<>>
          /\ intervalRef' \in timers' \ timers
          /\ timers' = timers \cup {intervalRef'}
     /\ recordingTime' > recordingTime =>
          recordingTime' = recordingTime + 1]_vars

\* C12 witness: a second session, started after the first one had counted a
\* tick and was stopped, is recording with its own timer and has itself
\* counted one tick.
C12_Witness ==
  /\ Len(recorders) = 2
  /\ recorders[1].state = "inactive"
  /\ SessionRecording
  /\ mediaRecorderRef = 2
  /\ timers = {intervalRef}
  /\ recordingTime = 1

\* C13: when a startRecording is refused, a non-null error is set and
\* isRecording (false for a start from idle), the timers, the chunk list and
\* the recorders are as before: no timer is started and no chunk recorded.
C13_RefusalLeavesIdle ==
  [][Refused =>
       /\ error' # NoError
       /\ UNCHANGED <<isRecording, recordingTime, intervalRef, timers,
                      chunksRef, recorders, delivered>>]_vars

\* C13 witness: the error of a refused start from idle, no recorder, no
\* timer, no chunk.
C13_Witness ==
  /\ error = StartFailedMsg
  /\ ~isRecording
  /\ recorders = <<>>
  /\ timers = {}
  /\ chunksRef = <<>>
  /\ pendingGrants = 0

\* C14: stopRecording called while the session is idle resolves to null and
\* changes nothing: isRecording, recordingTime, error, the chunk list and the
\* timers are unchanged and no submission modal is opened.
C14_IdleStopChangesNothing ==
  [][(Len(promises') = Len(promises) + 1 /\ ~isRecording) =>
       /\ promises'[Len(promises')].status = "null"
       /\ UNCHANGED <<isRecording, recordingTime, error, chunksRef,
                      intervalRef, timers, recorders, tracks>>
       /\ UNCHANGED <<showSubmissionModal, recordingBlob, lastToast>>]_vars

\* C14 witness: a stop made while idle, after a refused start, resolved to
\* null; the error is still shown and no modal is open.
C14_Witness ==
  /\ \E p \in Promises : promises[p].status = "null"
  /\ error = StartFailedMsg
  /\ ~isRecording
  /\ lastToast = RecordingStarted
  /\ ~showSubmissionModal
  /\ recordingBlob = NullBlob

\* C15: a capture failure is fatal to the current attempt only: in the error
\* state, with the session idle, RecordingControls still offers the start
\* action, by which a granted start reaches recording with the error cleared.
C15_StartOfferedAfterFailure ==
  (error # NoError /\ ~isRecording) => StartButtonRendered

\* ------------------------------------------------ submission: derived notions
Pending(n) == requests[n].status = "pending"
\* Call n is answered in this step: resolved ("ok") or rejected ("failed").
Settles(n, outcome) == Pending(n) /\ requests'[n].status = outcome
\* The modal's draft as handleSubmit hands it to processMeeting.
ModalDraft ==
  [recording |-> recordingBlob, title |-> meetingTitle,
   date |-> ToISOString(meetingDate), participants |-> emails]
\* The upload page's draft as its handleSubmit hands it to processMeeting.
UploadDraft ==
  [recording |-> IF selectedFile = NoFile THEN NullBlob
                 ELSE FileBlob(selectedFile),
   title |-> upMeetingTitle,
   date |-> IF upMeetingDate # Undefined
            THEN ToISOString(upMeetingDate) ELSE ToISOString(Now),
   participants |-> participants]
\* The toast a failure o of a call from the given page ends in.
FailureToast(origin, o) ==
  IF origin = "modal" THEN SubmissionFailed(o) ELSE UploadFailed(o)
Payload(n) ==
  [recording |-> requests[n].recording, title |-> requests[n].title,
   date |-> requests[n].date, participants |-> requests[n].participants]

\* -------------------------------------------------------- submission claims

\* C2: at most one submission request is in flight: while a processMeeting
\* call is unanswered, no step (a second run of a submit handler) issues
\* another call.
C2_NoCallWhileInFlight ==
  [][(\E n \in Requests : Pending(n)) => Len(requests') = Len(requests)]_vars

\* C6: when the modal's handleSubmit runs with a null blob, an empty
\* participant list or an empty title, the "Missing Information" toast is
\* shown, no processMeeting call is issued and the draft fields and
\* isSubmitting are left as they were.
C6_InvalidSubmitIsLocal ==
  [][(HandleSubmit /\ (recordingBlob = NullBlob \/ emails = <<>>
                        \/ meetingTitle = "")) =>
       /\ lastToast' = MissingInformation
       /\ requests' = requests
       /\ UNCHANGED <<emails, meetingTitle, meetingDate, recordingBlob,
                      isSubmitting>>]_vars

\* C6 witness: the toast of a rejected submit, shown for a recording that has
\* a title but no participant, with no call issued.
C6_Witness ==
  /\ lastToast = MissingInformation
  /\ recordingBlob # NullBlob
  /\ meetingTitle # ""
  /\ emails = <<>>
  /\ requests = <<>>

\* C7 as stated: on both paths, the modal and the upload page, processMeeting
\* is reached only with at least one participant and a non-empty title.
C7_EveryCallHasParticipants ==
  \A n \in Requests :
    /\ Len(requests[n].participants) >= 1
    /\ requests[n].title # ""

\* C7 as amended: every processMeeting call carries a recording and a
\* non-empty title; a call of the modal carries at least one participant as
\* well, while the upload page, where participants are optional, may send none.
C7_EveryCallIsValidated ==
  \A n \in Requests :
    /\ requests[n].recording # NullBlob
    /\ requests[n].title # ""
    /\ requests[n].origin = "modal" => Len(requests[n].participants) >= 1

\* C7 witness: a call issued by the modal.
C7_Witness ==
  \E n \in Requests :
    /\ requests[n].origin = "modal"
    /\ requests[n].participants # <<>>
    /\ requests[n].title # ""

\* C8: when a processMeeting call is rejected, the coordinator is editable
\* again and title, participants, date and recording equal the values that
\* call was issued with.
C8_FailurePreservesDraft ==
  [][\A n \in Requests :
       Settles(n, "failed") =>
         IF requests[n].origin = "modal"
         THEN ~isSubmitting' /\ ModalDraft' = Payload(n)
         ELSE ~isUploading' /\ UploadDraft' = Payload(n)]_vars

\* C9 as stated: when a processMeeting call of the modal resolves, the draft
\* is cleared and the meeting identifier of the answer is what the caller is
\* given, in the notification or as the navigation target.
C9_SuccessReportsMeetingId ==
  [][\A n \in Requests :
       (requests[n].origin = "modal" /\ Settles(n, "ok")) =>
         /\ emails' = <<>> /\ meetingTitle' = ""
         /\ recordingBlob' = NullBlob /\ ~isSubmitting'
         /\ \/ navigateTo' = MeetingId(n)
            \/ \E i \in 1..Len(lastToast'.description) :
                 lastToast'.description[i] = MeetingId(n)]_vars

\* C9 as amended: when a processMeeting call of the modal resolves, the form
\* is reset (participants empty, title empty, date now), the modal is closed,
\* the blob released and isSubmitting false; the answer is dropped: the toast
\* names the title the call was issued with and navigation goes to "/".
C9_SuccessClearsDraft ==
  [][\A n \in Requests :
       (requests[n].origin = "modal" /\ Settles(n, "ok")) =>
         /\ emails' = <<>> /\ meetingTitle' = "" /\ meetingDate' = Now
         /\ recordingBlob' = NullBlob /\ ~showSubmissionModal'
         /\ ~isSubmitting'
         /\ lastToast' = Toast("Meeting Submitted Successfully!",
                               BeingProcessed(requests[n].title))
         /\ navigateTo' = "/"]_vars

\* C9 witness: a resolved call of the modal, the form reset, the modal closed
\* and the dashboard navigated to.
C9_Witness ==
  /\ \E n \in Requests :
       /\ requests[n].origin = "modal" /\ requests[n].status = "ok"
       /\ lastToast = Toast("Meeting Submitted Successfully!",
                            BeingProcessed(requests[n].title))
  /\ emails = <<>> /\ meetingTitle = "" /\ recordingBlob = NullBlob
  /\ ~isSubmitting /\ ~showSubmissionModal
  /\ navigateTo = "/"

\* C16: while a submission of the modal is in flight (isSubmitting), no step
\* other than the transport's answer changes the title, the participant list
\* or the date.
C16_DraftImmutableInFlight ==
  [][(isSubmitting /\ \A n \in Requests : requests'[n].status = requests[n].status)
       => UNCHANGED <<emails, meetingTitle, meetingDate>>]_vars

\* C17: the coordinator never retries on its own: a processMeeting call is
\* issued only by a run of a submit handler, one call per run, and the step
\* in which a call is answered, with success or failure, issues none.
C17_NoAutomaticRetry ==
  [][/\ Len(requests') # Len(requests) =>
          /\ Len(requests') = Len(requests) + 1
          /\ HandleSubmit \/ UploadHandleSubmit
          /\ \A n \in Requests : requests'[n] = requests[n]
     /\ \A n \in Requests :
          (Pending(n) /\ requests'[n].status # "pending") =>
            Len(requests') = Len(requests)]_vars

\* C17 witness: a first call has failed, nothing was sent by itself, and a
\* second call, from a new run of the submit handler, is in flight.
C17_Witness ==
  /\ Len(requests) = 2
  /\ requests[1].status = "failed"
  /\ requests[2].status = "pending"
  /\ isSubmitting

\* C18: a failed submission shows a reason that tells a network failure from
\* a server rejection: for a non-2xx answer with message m the reason is
\* exactly m, and the toast shown is never the one a failure of the other
\* kind would show.
C18_ReasonTellsKind ==
  [][\A n \in Requests :
       Settles(n, "failed") =>
         LET o == requests'[n].outcome IN
         /\ (o.kind = "rejected" /\ o.body.message # "") =>
              lastToast'.description = <<o.body.message>>
         /\ \A other \in Outcomes :
              other.kind # o.kind =>
                FailureToast(requests[n].origin, other) # lastToast']_vars

\* ------------------------------------------------- participant input claims

\* C19: after any sequence of add and remove operations no two entries of the
\* participant list are equal when compared case-insensitively.
C19_NoCaseInsensitiveDuplicate ==
  \A i, j \in 1..Len(emails) :
    ToLowerCase(emails[i]) = ToLowerCase(emails[j]) => i = j

\* C19 witness: an address was added, and added again in another case with
\* spaces around it or not: the list still has exactly one entry.
C19_Witness ==
  /\ emails = << <<"a", "@", "x", ".", "c">> >>
  /\ inputValue = <<"A", "@", "x", ".", "c">>
  /\ inputError = DuplicateEmailMsg

\* C20: a rejected token never changes the list: when a text that is not
\* blank is committed, by a delimiter key or by loss of focus, and lacks the
\* shape local@domain.tld, InvalidEmail is signalled; when it has the shape
\* and is already present, DuplicateEmail is signalled; the two signals
\* differ and in both cases the list is as before.
C20_RejectionKeepsList ==
  [][/\ InvalidEmailMsg # DuplicateEmailMsg
     /\ ((handleBlur \/ \E key \in {"Enter", ",", " "} : handleKeyDown(key))
          /\ Trim(inputValue) # <<>>) =>
          LET token == ToLowerCase(Trim(inputValue)) IN
          /\ ~isValidEmail(token) =>
               inputError' = InvalidEmailMsg /\ emails' = emails
          /\ (isValidEmail(token) /\ Includes(emails, token)) =>
               inputError' = DuplicateEmailMsg /\ emails' = emails]_vars

\* C20 witness: a malformed token was rejected with InvalidEmail while the
\* list kept its two entries.
C20_Witness ==
  /\ Len(emails) = 2
  /\ inputValue = <<"a", "@", "x">>
  /\ inputError = InvalidEmailMsg

C22_KeyAndBlurAgree ==
  [][\A key \in {"Enter", ",", " "} : handleKeyDown(key) <=> handleBlur]_vars

\* C22 witness: a text with a space inside was committed next to one entry
\* and refused.
C22_Witness ==
  /\ Len(emails) = 1
  /\ inputValue = <<"a", " ", "@", "x", ".", "c">>
  /\ inputError = InvalidEmailMsg

\* C23: a step that lengthens the list appends the committed token as its
\* last element, and no step changes the relative order of the entries that
\* are in the list before and after it.
C23_InsertionOrder ==
  [][/\ Len(emails') > Len(emails) =>
          emails' = Append(emails, ToLowerCase(Trim(inputValue)))
     /\ \A i, j \in 1..Len(emails) : \A k, l \in 1..Len(emails') :
          (i < j /\ emails'[k] = emails[i] /\ emails'[l] = emails[j]) =>
             k < l]_vars

\* C23 witness: b@x.c was added before a@x.c and is displayed before it.
C23_Witness ==
  emails = << <<"b", "@", "x", ".", "c">>, <<"a", "@", "x", ".", "c">> >>

\* C24: committing a text that is empty after trimming changes neither the
\* list nor the error nor the text.
C24_EmptyTokenIgnored ==
  [][\A key \in {"Enter", ",", " "} :
       (handleKeyDown(key) /\ Trim(inputValue) = <<>>) =>
          UNCHANGED <<emails, inputError, inputValue>>]_vars

\* C24 witness: a single space is pending next to two entries and no error
\* is shown.
C24_Witness ==
  /\ inputValue = <<" ">>
  /\ inputError = ""
  /\ Len(emails) = 2

\* ------------------------------------------------ capture claims, continued

\* C25: within one recording a tick and a chunk delivery write different
\* things, so their order does not matter: a step that is not a start and
\* changes recordingTime adds exactly 1 and leaves the chunk list alone; a
\* step that is not a start and changes the chunk list appends the chunk that
\* has just arrived at its end and leaves recordingTime alone.
C25_TicksAndChunksCommute ==
  [][Len(recorders') = Len(recorders) =>
       /\ recordingTime' # recordingTime =>
            recordingTime' = recordingTime + 1 /\ chunksRef' = chunksRef
       /\ chunksRef' # chunksRef =>
            /\ recordingTime' = recordingTime
            /\ \E r \in 1..Len(recorders) :
                 /\ delivered'[r] # delivered[r]
                 /\ chunksRef' =
                      Append(chunksRef, delivered'[r][Len(delivered'[r])])]_vars

\* C25 witness: one recording has seen a tick and two chunks that carry data.
C25_Witness ==
  /\ Len(recorders) = 1
  /\ isRecording
  /\ recordingTime = 1
  /\ Len(chunksRef) = 2

\* C28: the capture device is acquired by startRecording and released by
\* the stop handler stopRecording installs, and by nothing else:
\* pauseRecording, resumeRecording, ticks and chunk deliveries leave the
\* streams and the state of their tracks as they are, and a step that does
\* change them is a granted start, which adds one live stream, or the stop
\* event of a recorder that stopRecording has given a handler.
C28_OnlyStartAndStopTouchDevice ==
  [][/\ (\/ PauseRecording
         \/ ResumeRecording
         \/ \E t \in timers : Tick(t)
         \/ \E r \in Recorders : RecorderData(r) \/ RecorderFinalData(r)) =>
          tracks' = tracks
     /\ tracks' # tracks =>
          \/ /\ pendingGrants' = pendingGrants - 1
             /\ tracks' = Append(tracks, "live")
          \/ \E r \in Recorders :
               /\ recorders[r].onstop # 0
               /\ recorders[r].events = <<"stop">>
               /\ recorders'[r].events = <<>>]_vars

\* C28 witness: a session that has counted a tick and received a chunk is
\* paused, and its only stream is still live.
C28_Witness ==
  /\ SessionPaused
  /\ tracks = <<"live">>
  /\ recordingTime = 1
  /\ chunksRef # <<>>

\* C29: at most one tick timer is active, and none while the session is
\* idle or paused; so recordingTime never increases after stop.
C29_AtMostOneTimer ==
  /\ Cardinality(timers) <= 1
  /\ (~isRecording \/ SessionPaused) => timers = {}

\* C30: no capture stream is leaked.  When the session is idle, no start is
\* pending and no stop event is outstanding, every acquired stream is ended;
\* the stop event that settles a stopRecording ends the stream of the
\* recorder that was stopped; a start that fails ends the stream it acquired.
C30_NoStreamLeaked ==
  /\ []((/\ ~isRecording
         /\ pendingGrants = 0
         /\ \A r \in Recorders : recorders[r].events = <<>>) =>
          \A s \in 1..Len(tracks) : tracks[s] = "ended")
  /\ [][\A p \in Promises :
          Finalizes(p) =>
            tracks'[recorders[promises[p].recorder].stream] = "ended"]_vars
  /\ [][(error' # NoError /\ error = NoError) =>
          \A s \in 1..Len(tracks') : s > Len(tracks) => tracks'[s] = "ended"]_vars

\* C26: every request the modal builds for a recording carries the four
\* fields recording, title, date and participants, taken from the draft as
\* it is when handleSubmit runs (participants is the draft's list), and no
\* other field.
C26_RequestCarriesDraft ==
  [][Len(requests') = Len(requests) + 1 =>
       LET request == requests'[Len(requests')] IN
       /\ DOMAIN request \ {"origin", "status", "outcome"}
            = {"recording", "title", "date", "participants"}
       /\ request.recording = recordingBlob
       /\ request.title = meetingTitle
       /\ request.date = ToISOString(meetingDate)
       /\ request.participants = emails]_vars

\* C26 as stated: every request carries the five fields recording, title,
\* date, participants and duration, participants being the draft's list and
\* duration the elapsed seconds of the recording.
C26_RequestCarriesDuration ==
  [][Len(requests') = Len(requests) + 1 =>
       LET request == requests'[Len(requests')] IN
       /\ {"recording", "title", "date", "participants", "duration"}
            \subseteq DOMAIN request
       /\ request.participants = emails
       /\ request.duration = recordingTime]_vars

\* C26 witness: the request for the second recording is in flight with the
\* draft's participant and title.
C26_Witness ==
  /\ Len(requests) = 1
  /\ Pending(1)
  /\ requests[1].recording = RecordingBlob(2)
  /\ requests[1].participants = <<"a@x.com">>
  /\ requests[1].title = "Standup"

\* -------------------------------------------------------- transport claims

\* C27: the values a progress callback receives during one upload are whole
\* percentages between 0 and 100 and never decrease, whenever the byte
\* counts the platform reports do not decrease and do not exceed the total.
C27_ProgressMonotoneInRange ==
  \A i \in 1..Len(progressReports) :
    /\ progressReports[i] \in 0..100
    /\ \A j \in 1..Len(progressReports) :
         i <= j => progressReports[i] <= progressReports[j]

\* C27 witness: a transfer of three units reported after each unit, with
\* both directions of rounding.
C27_Witness == progressReports = <<33, 67, 100>>

\* ------------------------------------------------- claims on notifications

\* C31: the notification "Recording Started" is emitted only by a start that
\* brought the session into recording; a start that failed sets the error
\* and emits no success notification.
C31_StartedToastOnlyOnSuccess ==
  [][pendingGrants' < pendingGrants =>
       IF Granted
       THEN lastToast' = RecordingStarted /\ SessionRecording'
       ELSE lastToast' # RecordingStarted /\ error' # NoError]_vars

\* --------------------------------------------- submission claims, continued

\* C32: while a call of the modal is unanswered the recording cannot be
\* discarded: the modal is open and the blob RecordingControls holds is the
\* one the call was issued with.
C32_RecordingKeptInFlight ==
  \A n \in Requests :
    (Pending(n) /\ requests[n].origin = "modal") =>
      /\ showSubmissionModal
      /\ recordingBlob # NullBlob
      /\ recordingBlob = requests[n].recording

\* C33: on the upload page the progress shown is at most 90 while the call
\* is unanswered and 100 only after a success; after a failed call, with no
\* call in flight, it is 0; and every progress interval still running belongs
\* to a call that is unanswered.
C33_ProgressFollowsSubmission ==
  /\ \A n \in progressIntervals : Pending(n)
  /\ (\E n \in Requests : Pending(n) /\ requests[n].origin = "upload") =>
        uploadProgress <= 90
  /\ uploadProgress = 100 =>
        \E n \in Requests :
          requests[n].origin = "upload" /\ requests[n].status = "ok"
  /\ (/\ requests # <<>>
      /\ requests[Len(requests)].origin = "upload"
      /\ requests[Len(requests)].status = "failed") => uploadProgress = 0

\* C34: with the modal open and no submission in flight, handleSubmit's
\* validation lets a draft through to the network call iff canSubmit holds,
\* a title of white space only included.
C34_ValidationMatchesCanSubmit ==
  (showSubmissionModal /\ ~isSubmitting) => (canSubmit <=> ~ModalDraftInvalid)

\* C35: every draft starts empty: when the modal opens for a newly finalized
\* recording the title and the participant list are empty, whether the draft
\* before it was submitted or cancelled.
C35_DraftStartsEmpty ==
  [][(~showSubmissionModal /\ showSubmissionModal') =>
       (meetingTitle' = "" /\ emails' = <<>>)]_vars

\* C36: isSubmitting is true only while a call of the modal is unanswered;
\* the answer to a call, success or failure of any kind, sets it to false;
\* and when the transport answers in the end, a submitting modal always
\* leaves the submitting state.
C36_SubmittingEnds ==
  /\ [](isSubmitting =>
         \E n \in Requests : Pending(n) /\ requests[n].origin = "modal")
  /\ [][\A n \in Requests :
          (Pending(n) /\ ~Pending(n)') => ~isSubmitting']_vars
  /\ (isSubmitting ~> ~isSubmitting)

\* C36 witness: the only call was rejected by the server and the modal is
\* no longer submitting.
C36_Witness ==
  /\ Len(requests) = 1
  /\ requests[1].status = "failed"
  /\ requests[1].outcome.kind = "rejected"
  /\ ~isSubmitting
  /\ showSubmissionModal

\* ------------------------------------------------------ credential claims

\* C37: the step in which a login succeeds leaves access token, refresh
\* token and cached profile present; the step in which a logout completes,
\* whatever the server answered, and the step in which a refresh fails after
\* a 401 leave all three absent.
C37_CredentialLifecycle ==
  [][\A c \in 1..Len(authCalls') :
       LET before == IF c <= Len(authCalls) THEN authCalls[c].pc ELSE "none"
           after == authCalls'[c]
       IN
       /\ (after.op = "login" /\ after.pc = "resolved" /\ before # "resolved") =>
            /\ accessToken' # Absent
            /\ refreshToken' # Absent
            /\ userProfile' # Absent
       /\ (\/ after.op = "logout" /\ after.pc = "done" /\ before # "done"
           \/ after.pc = "expired" /\ before # "expired") =>
            /\ accessToken' = Absent
            /\ refreshToken' = Absent
            /\ userProfile' = Absent]_vars

\* C37 witness: after a successful login a getUserProfile call was answered
\* 401, the refresh failed, and nothing is stored any more.
C37_Witness ==
  /\ Len(authCalls) >= 2
  /\ authCalls[1] = [op |-> "login", pc |-> "resolved"]
  /\ authCalls[2] = [op |-> "getUserProfile", pc |-> "expired"]
  /\ accessToken = Absent /\ refreshToken = Absent /\ userProfile = Absent

====
